---- MODULE Spec2Model ----
(***************************************************************************)
(* A model of the OPC UA emulator repository:                              *)
(*   src/opcua_scanner.py  OPCUAScanner (connect, disconnect,              *)
(*                         get_server_info, browse_nodes, scan_all_nodes,  *)
(*                         monitor_values, call_method)                    *)
(*   src/opcua_server.py   ModbusPLCEmulator and OPCUAServer (init_server, *)
(*                         restart_plc, update_values)                     *)
(* The asyncua library is the environment: each awaited library call is a  *)
(* step whose outcome (success, or an exception) is chosen by the          *)
(* environment.                                                            *)
(***************************************************************************)
EXTENDS Integers, Sequences, FiniteSets, TLC

VARIABLES
    \* ---- OPCUAScanner ----
    client,          \* self.client: "None" or "Client" (a library Client object)
    link,            \* the library client's connection: "closed" or "open"
    last,            \* what the latest scanner operation did and returned
    mon,             \* monitor_values: position in the loop and this cycle's reads
    \* ---- OPCUAServer ----
    plc_emulator,    \* self.plc_emulator: the ModbusPLCEmulator's four arrays
    nodes,           \* self.nodes: declared type and current value of each variable node
    strict_types,    \* whether the library's server rejects a write of another variant type
    upd,             \* update_values: position in the cycle and its local variables
    rst,             \* restart_plc: position of the call in flight, and the latest call
    obs,             \* history of the run: what each cycle wrote, error cycles counted
    \* ---- browse_nodes / scan_all_nodes ----
    space,           \* the server's address space below the Objects node
    scan             \* result of the latest browse_nodes / scan_all_nodes call

scannerVars == <<client, link, last, mon>>
serverVars  == <<plc_emulator, nodes, strict_types, upd, rst, obs>>
browseVars  == <<space, scan>>
vars == <<client, link, last, mon, plc_emulator, nodes, strict_types, upd, rst, obs,
          space, scan>>

----------------------------------------------------------------------------
(***************************************************************************)
(* OPCUAScanner: connect, disconnect, get_server_info, call_method         *)
(***************************************************************************)

NoOp ==
    [op |-> "none", ret |-> "none", raised |-> FALSE, established |-> FALSE,
     infoFailed |-> FALSE, libDisconnect |-> FALSE, failure |-> "none",
     before |-> [client |-> "None", link |-> "closed"]]

ScannerState == [client |-> client, link |-> link]

\* get_server_info with its try/except removed: a failed read of i=2259 raises.
GetServerInfoNoCatch(readOk) ==
    [raised |-> ~readOk, info |-> IF readOk THEN "info" ELSE "none"]

\* get_server_info: the read of i=2259 either succeeds (the info dict is
\* returned) or raises, and the except clause returns {}.
GetServerInfo(readOk) ==
    [raised |-> FALSE, info |-> IF readOk THEN "info" ELSE "empty"]

ConnectOutcomes == {"ctor_raises", "connect_raises", "ok_info_ok", "ok_info_fails"}

\* connect: Client(url) is assigned to self.client, then client.connect() is
\* awaited, then get_server_info; any Exception makes the result False.
Connect(o) ==
    LET made        == o # "ctor_raises"
        established == o \in {"ok_info_ok", "ok_info_fails"}
        si          == GetServerInfo(o = "ok_info_ok")
        completed   == established /\ ~si.raised
    IN  /\ client' = IF made THEN "Client" ELSE client
        /\ link'   = IF established THEN "open"
                     ELSE IF made THEN "closed" ELSE link
        /\ last'   = [NoOp EXCEPT !.op = "connect",
                                  !.ret = completed,
                                  !.raised = FALSE,
                                  !.established = established,
                                  !.infoFailed = (o = "ok_info_fails"),
                                  !.before = ScannerState]
        /\ UNCHANGED <<mon, serverVars, browseVars>>

\* disconnect: when self.client is truthy, client.disconnect() is awaited and
\* an exception from it is logged; self.client is never reset.
Disconnect(libOk) ==
    /\ IF client # "None"
       THEN /\ link' = IF libOk THEN "closed" ELSE link
            /\ last' = [NoOp EXCEPT !.op = "disconnect",
                                    !.libDisconnect = TRUE,
                                    !.failure = IF libOk THEN "none" ELSE "logged",
                                    !.before = ScannerState]
       ELSE /\ libOk
            /\ link' = link
            /\ last' = [NoOp EXCEPT !.op = "disconnect", !.before = ScannerState]
    /\ UNCHANGED <<client, mon, serverVars, browseVars>>

\* The ways the three library calls of call_method can fail.
CallFailures ==
    {"Unreachable", "Timeout", "NodeNotFound", "ArgumentTypeMismatch", "HandlerFailed"}

\* What a successful library call_method returns: the method's output, or
\* None for a method that declares no output argument.
CallResults == {"PLC restarted successfully", "PLC restart cancelled", "None"}

\* call_method: get_node, get_child and call_method inside one try; the
\* except clause logs and returns None.
CallMethod(failure, result) ==
    /\ failure = "none" => (client = "Client" /\ link = "open")
    /\ last' = [NoOp EXCEPT !.op = "call_method",
                            !.failure = failure,
                            !.ret = IF failure = "none" THEN result ELSE "None",
                            !.before = ScannerState]
    /\ UNCHANGED <<client, link, mon, serverVars, browseVars>>

----------------------------------------------------------------------------
(***************************************************************************)
(* OPCUAScanner.monitor_values                                             *)
(***************************************************************************)

\* The default list monitor_values uses when node_paths is empty or None.
DefaultNodePaths ==
    << "ns=2;s=PLC_System.Temperature_Sensors.Temperature_Sensor_00",
       "ns=2;s=PLC_System.Temperature_Sensors.Temperature_Sensor_01",
       "ns=2;s=PLC_System.Pressure_Sensors.Pressure_Sensor_00",
       "ns=2;s=PLC_System.Flow_Meters.Flow_Meter_00",
       "ns=2;s=PLC_System.Motor_Controls.Motor_00_Running",
       "ns=2;s=PLC_System.System_Status.PLC_Running",
       "ns=2;s=PLC_System.System_Status.Communication_OK",
       "ns=2;s=PLC_System.System_Status.Error_Count" >>

\* The node_paths arguments tried: none, and caller-supplied lists.
NodePathArgs ==
    { <<>>,
      << "ns=2;i=7" >>,
      << "ns=2;i=7", "ns=9;s=Missing", "ns=2;i=8" >> }

MonOff == [pc |-> "off", paths |-> <<>>, i |-> 0, results |-> <<>>, stoppedBy |-> "none"]

\* The outcomes of one pass through the body of the for loop: both reads
\* succeed, or read_value raises, or read_display_name raises.
ReadOutcomes == {"ok", "read_value_raises", "read_display_name_raises"}

\* A failed read seen by a handler placed around the whole for loop: the rest
\* of the list is skipped.
ReadFailedAbort(m) == Len(m.paths) + 1

\* A failed read is caught by the try inside the for loop, which goes on with
\* the next path of the list.
ReadFailedNext(m) == m.i + 1

\* monitor_values up to the first read: the default list replaces an empty
\* argument, and the first cycle starts.
MonitorStart(arg) ==
    /\ mon.pc = "off"
    /\ mon' = [pc |-> "reading",
               paths |-> IF arg = <<>> THEN DefaultNodePaths ELSE arg,
               i |-> 1, results |-> <<>>, stoppedBy |-> "none"]
    /\ UNCHANGED <<client, link, last, serverVars, browseVars>>

\* One iteration of the for loop: get_node, read_value, read_display_name and
\* the print, or the print of the error.
MonitorRead(o) ==
    /\ mon.pc = "reading"
    /\ mon.i <= Len(mon.paths)
    /\ o = "ok" => (client = "Client" /\ link = "open")
    /\ LET rec  == [path |-> mon.paths[mon.i],
                    printed |-> IF o = "ok" THEN "value" ELSE "error"]
           next == IF o = "ok" THEN mon.i + 1 ELSE ReadFailedNext(mon)
       IN  mon' = [mon EXCEPT !.i = next,
                              !.results = Append(@, rec),
                              !.pc = IF next > Len(mon.paths) THEN "sleep" ELSE "reading"]
    /\ UNCHANGED <<client, link, last, serverVars, browseVars>>

\* asyncio.sleep(2) returns and the while loop starts the next cycle.
MonitorWake ==
    /\ mon.pc = "sleep"
    /\ mon' = [mon EXCEPT !.pc = "reading", !.i = 1, !.results = <<>>]
    /\ UNCHANGED <<client, link, last, serverVars, browseVars>>

\* KeyboardInterrupt: the loop logs and breaks.
MonitorInterrupt ==
    /\ mon.pc \in {"reading", "sleep"}
    /\ mon' = [MonOff EXCEPT !.stoppedBy = "KeyboardInterrupt"]
    /\ UNCHANGED <<client, link, last, serverVars, browseVars>>

----------------------------------------------------------------------------
(***************************************************************************)
(* ModbusPLCEmulator                                                       *)
(***************************************************************************)

\* Variable nodes per sensor group (10 in init_server; 20 limit switches).
NumSensors == 2
NumSwitches == 2 * NumSensors
\* Length of each of the emulator's four arrays.
RegisterCount == 100
\* input_registers[i + 10] are the pressures, input_registers[i + 20] the flows.
PressureBase == 10
FlowBase == 20
\* Update cycles and RestartPLC calls explored.
MaxCycles == 2
MaxRestarts == 2

Registers == 0 .. (RegisterCount - 1)

\* ModbusPLCEmulator.__init__
FreshEmulator ==
    [coils             |-> [r \in Registers |-> FALSE],
     discrete_inputs   |-> [r \in Registers |-> FALSE],
     holding_registers |-> [r \in Registers |-> 0],
     input_registers   |-> [r \in Registers |-> 0]]

\* The k-th call of random.random() in one update_data, in hundredths, and the
\* value of random.randint(0, 1000), as drawn from the stream `seed` selects.
Seeds == {8, 40, 74, 97}
Random(seed, k) == (seed + 41 * k) % 100
RandInt(seed, k) == (seed * 7 + 333 * k) % 1001

Abs(x) == IF x < 0 THEN -x ELSE x

\* ModbusPLCEmulator.update_data: registers 0.. are temperatures scaled by 100,
\* 10.. pressures, 20.. flows scaled by 100; a coil flips with a draw below
\* 0.1, a discrete input below 0.05, a holding register changes below 0.02.
update_data(e, seed) ==
    LET U(k) == Random(seed, k)
        N == NumSensors
        M == NumSwitches
    IN  [input_registers |->
            [r \in Registers |->
                IF r < N
                  THEN 1750 + 200 * r + 5 * U(r)
                ELSE IF r >= PressureBase /\ r < PressureBase + N
                  THEN 975 + 100 * (r - PressureBase) + (U(N + r - PressureBase) \div 2)
                ELSE IF r >= FlowBase /\ r < FlowBase + N
                  THEN 5000 + 30 * Abs(U(2 * N + r - FlowBase) - 50)
                ELSE e.input_registers[r]],
         coils |->
            [r \in Registers |->
                IF r < N /\ U(3 * N + r) < 10 THEN ~e.coils[r] ELSE e.coils[r]],
         discrete_inputs |->
            [r \in Registers |->
                IF r < M /\ U(4 * N + r) < 5
                  THEN ~e.discrete_inputs[r] ELSE e.discrete_inputs[r]],
         holding_registers |->
            [r \in Registers |->
                IF r < N /\ U(4 * N + M + r) < 2
                  THEN RandInt(seed, r) ELSE e.holding_registers[r]]]

----------------------------------------------------------------------------
(***************************************************************************)
(* OPCUAServer: the nodes of init_server and the library's write_value     *)
(***************************************************************************)

\* Python values: a float is kept in hundredths.
PyFloat(hundredths) == [py |-> "float", v |-> hundredths]
PyFloatOfInt(n)     == [py |-> "float", v |-> 100 * n]
PyBool(b)           == [py |-> "bool", v |-> b]
PyInt(n)            == [py |-> "int", v |-> n]
PyDateTime(t)       == [py |-> "datetime", v |-> t]

\* The groups of self.nodes in the order update_values writes them.
GroupOrder ==
    <<"temperatures", "pressures", "flows", "motors", "discrete", "setpoints">>
Count(g) == IF g = "discrete" THEN NumSwitches ELSE NumSensors
StatusNames == {"plc_running", "comm_status", "last_update", "error_count"}

SensorKeys == UNION { {<<GroupOrder[j], i>> : i \in 0 .. (Count(GroupOrder[j]) - 1)}
                        : j \in 1 .. Len(GroupOrder) }
NodeKeys == SensorKeys \cup {<<"status", n>> : n \in StatusNames}

\* The variant type each node is declared with in init_server.
DeclaredType(key) ==
    CASE key[1] \in {"temperatures", "pressures", "flows", "setpoints"} -> "Double"
      [] key[1] \in {"motors", "discrete"}     -> "Boolean"
      [] key = <<"status", "plc_running">>     -> "Boolean"
      [] key = <<"status", "comm_status">>     -> "Boolean"
      [] key = <<"status", "last_update">>     -> "DateTime"
      [] key = <<"status", "error_count">>     -> "UInt32"

\* The initial value each node is added with in init_server.
InitialValue(key) ==
    CASE key[1] \in {"temperatures", "pressures", "flows", "setpoints"} -> PyFloat(0)
      [] key[1] \in {"motors", "discrete"}     -> PyBool(FALSE)
      [] key = <<"status", "plc_running">>     -> PyBool(TRUE)
      [] key = <<"status", "comm_status">>     -> PyBool(TRUE)
      [] key = <<"status", "last_update">>     -> PyDateTime(0)
      [] key = <<"status", "error_count">>     -> PyInt(0)

\* The variant type the library gives a Python value written without an
\* explicit type, as every write_value call of the server does.
GuessVariantType(pv) ==
    CASE pv.py = "bool"     -> "Boolean"
      [] pv.py = "float"    -> "Double"
      [] pv.py = "int"      -> "Int64"
      [] pv.py = "datetime" -> "DateTime"

\* node.write_value(pv): a server that checks the variant type against the
\* node's refuses another type (BadTypeMismatch is raised, nothing is stored).
write_value(ns, key, pv) ==
    LET vt == GuessVariantType(pv)
    IN  IF vt = ns[key].vt \/ ~strict_types
          THEN [ok |-> TRUE,  nodes |-> [ns EXCEPT ![key] = [vt |-> vt, val |-> pv]]]
          ELSE [ok |-> FALSE, nodes |-> ns]

\* The record kept of one write_value call.
WriteRecord(key, pv, ok) ==
    [key |-> key, sent |-> pv, variant |-> GuessVariantType(pv),
     declared |-> DeclaredType(key), accepted |-> ok]

NoWrite == [key |-> <<"none", 0>>, sent |-> PyInt(0), variant |-> "none",
            declared |-> "none", accepted |-> FALSE]

----------------------------------------------------------------------------
(***************************************************************************)
(* OPCUAServer.update_values and OPCUAServer.restart_plc                   *)
(* Each action runs one coroutine from one await to its next one.          *)
(***************************************************************************)

\* The value update_values computes for a sensor node from the emulator.
SensorValue(e, key) ==
    LET i == key[2]
    IN  CASE key[1] = "temperatures" -> PyFloat(e.input_registers[i])
          [] key[1] = "pressures"    -> PyFloatOfInt(e.input_registers[i + PressureBase])
          [] key[1] = "flows"        -> PyFloat(e.input_registers[i + FlowBase])
          [] key[1] = "motors"       -> PyBool(e.coils[i])
          [] key[1] = "discrete"     -> PyBool(e.discrete_inputs[i])
          [] key[1] = "setpoints"    -> PyFloatOfInt(e.holding_registers[i])

\* Position of a sensor node in the order update_values writes the nodes.
RECURSIVE Offset(_)
Offset(j) == IF j <= 1 THEN 0 ELSE Offset(j - 1) + Count(GroupOrder[j - 1])
GroupIndex(g) == CHOOSE j \in 1 .. Len(GroupOrder) : GroupOrder[j] = g
Pos(key) == Offset(GroupIndex(key[1])) + key[2] + 1
LastPos == Cardinality(SensorKeys)
\* The sensor nodes in the order update_values writes them.
WriteOrder == [p \in 1 .. LastPos |-> CHOOSE key \in SensorKeys : Pos(key) = p]
KeyAt(p) == WriteOrder[p]

ErrorCount == <<"status", "error_count">>

UpdIdle == [at |-> "sleep", k |-> 0, current_errors |-> "none", comm_ok |-> TRUE,
            cycles |-> 0]
RstIdle == [pc |-> "idle", force |-> FALSE, ret |-> "none", replaced |-> FALSE,
            wrote |-> NoWrite, calls |-> 0]
ObsInit == [snapshot |-> FreshEmulator, lastWrite |-> NoWrite, errCycles |-> 0,
            lastCycle |-> "none", failedCycles |-> 0]

\* update_values returns (normally, or from its except clause) and run sleeps.
CycleEnd(u) ==
    [u EXCEPT !.at = "sleep", !.k = 0, !.current_errors = "none", !.cycles = @ + 1]

\* An exception of update_values that reaches run: the except clause of run logs
\* "Server error", the while loop is left and the server stops.
OnExceptionPropagate(u) ==
    [u EXCEPT !.at = "stopped", !.k = 0, !.current_errors = "none"]

\* An exception raised inside update_values: its except clause logs it and
\* update_values returns to run, which sleeps and calls it again.
OnException(u) == CycleEnd(u)

AfterSensor(u, k) ==
    IF k < LastPos THEN [u EXCEPT !.at = "sensors", !.k = k + 1]
                   ELSE [u EXCEPT !.at = "last_update", !.k = 0]

\* One sensor write of update_values: the value is read from the emulator
\* self.plc_emulator names at that moment, then written.
SensorWrite(e, k) ==
    LET key == KeyAt(k)
        pv  == SensorValue(e, key)
        w   == write_value(nodes, key, pv)
    IN  /\ nodes' = w.nodes
        /\ upd' = IF w.ok THEN AfterSensor(upd, k) ELSE OnException(upd)
        /\ obs' = [obs EXCEPT !.snapshot = IF k = 1 THEN e ELSE @,
                              !.lastWrite = WriteRecord(key, pv, w.ok),
                              !.lastCycle = IF w.ok THEN "running" ELSE "exception logged",
                              !.failedCycles = IF w.ok THEN @ ELSE @ + 1]

\* run calls update_values: update_data, then the first temperature write.
UpdateBegin(seed) ==
    /\ upd.at = "sleep"
    /\ upd.cycles < MaxCycles
    /\ plc_emulator' = update_data(plc_emulator, seed)
    /\ SensorWrite(plc_emulator', 1)
    /\ UNCHANGED <<strict_types, rst, scannerVars, browseVars>>

\* The next write of the temperature .. setpoint loops.
UpdateSensor ==
    /\ upd.at = "sensors"
    /\ SensorWrite(plc_emulator, upd.k)
    /\ UNCHANGED <<plc_emulator, strict_types, rst, scannerVars, browseVars>>

\* last_update.write_value(datetime.now())
UpdateLastUpdate ==
    /\ upd.at = "last_update"
    /\ LET key == <<"status", "last_update">>
           pv  == PyDateTime(upd.cycles + 1)
           w   == write_value(nodes, key, pv)
       IN  /\ nodes' = w.nodes
           /\ upd' = IF w.ok THEN [upd EXCEPT !.at = "comm_status"] ELSE OnException(upd)
           /\ obs' = [obs EXCEPT !.lastWrite = WriteRecord(key, pv, w.ok),
                                 !.lastCycle = IF w.ok THEN "running" ELSE "exception logged",
                                 !.failedCycles = IF w.ok THEN @ ELSE @ + 1]
    /\ UNCHANGED <<plc_emulator, strict_types, rst, scannerVars, browseVars>>

\* comm_ok = random.random() > 0.01; comm_status.write_value(comm_ok); the
\* cycle ends here when comm_ok is True.
UpdateCommStatus(comm_ok) ==
    /\ upd.at = "comm_status"
    /\ LET key == <<"status", "comm_status">>
           pv  == PyBool(comm_ok)
           w   == write_value(nodes, key, pv)
       IN  /\ nodes' = w.nodes
           /\ upd' = IF ~w.ok THEN [OnException(upd) EXCEPT !.comm_ok = comm_ok]
                      ELSE IF comm_ok THEN [CycleEnd(upd) EXCEPT !.comm_ok = comm_ok]
                      ELSE [upd EXCEPT !.at = "read_errors", !.comm_ok = comm_ok]
           /\ obs' = [obs EXCEPT !.lastWrite = WriteRecord(key, pv, w.ok),
                                 !.lastCycle = IF ~w.ok THEN "exception logged"
                                               ELSE IF comm_ok THEN "completed"
                                               ELSE "running",
                                 !.failedCycles = IF w.ok THEN @ ELSE @ + 1]
    /\ UNCHANGED <<plc_emulator, strict_types, rst, scannerVars, browseVars>>

\* current_errors = await error_count.read_value()
UpdateReadErrors ==
    /\ upd.at = "read_errors"
    /\ upd' = [upd EXCEPT !.at = "write_errors",
                          !.current_errors = nodes[ErrorCount].val.v]
    /\ UNCHANGED <<plc_emulator, nodes, strict_types, rst, obs, scannerVars, browseVars>>

\* await error_count.write_value(current_errors + 1); an exception is logged by
\* the except clause.  Either way the cycle with comm_ok = False is over.
UpdateWriteErrors ==
    /\ upd.at = "write_errors"
    /\ LET pv == PyInt(upd.current_errors + 1)
           w  == write_value(nodes, ErrorCount, pv)
       IN  /\ nodes' = w.nodes
           /\ upd' = IF w.ok THEN CycleEnd(upd) ELSE OnException(upd)
           /\ obs' = [obs EXCEPT !.lastWrite = WriteRecord(ErrorCount, pv, w.ok),
                                 !.errCycles = @ + 1,
                                 !.lastCycle = IF w.ok THEN "completed" ELSE "exception logged",
                                 !.failedCycles = IF w.ok THEN @ ELSE @ + 1]
    /\ UNCHANGED <<plc_emulator, strict_types, rst, scannerVars, browseVars>>

\* The library call update_values is awaiting raises an Exception (whatever
\* the call and the cause): the except clause of update_values logs it.
UpdateRaises ==
    /\ upd.at \in {"sensors", "last_update", "comm_status", "read_errors", "write_errors"}
    /\ upd' = OnException(upd)
    /\ obs' = [obs EXCEPT !.lastCycle = "exception logged",
                          !.failedCycles = @ + 1,
                          !.errCycles = IF upd.at \in {"read_errors", "write_errors"}
                                          THEN @ + 1 ELSE @]
    /\ UNCHANGED <<plc_emulator, nodes, strict_types, rst, scannerVars, browseVars>>

\* restart_plc up to its await: with force_restart the emulator is replaced;
\* without it the method returns at once.
RestartCall(force_restart) ==
    /\ rst.pc = "idle"
    /\ rst.calls < MaxRestarts
    /\ IF force_restart
         THEN /\ plc_emulator' = FreshEmulator
              /\ rst' = [pc |-> "write", force |-> TRUE, ret |-> "pending",
                         replaced |-> TRUE, wrote |-> NoWrite, calls |-> rst.calls + 1]
         ELSE /\ plc_emulator' = plc_emulator
              /\ rst' = [pc |-> "idle", force |-> FALSE, ret |-> "PLC restart cancelled",
                         replaced |-> FALSE, wrote |-> NoWrite, calls |-> rst.calls + 1]
    /\ UNCHANGED <<nodes, strict_types, upd, obs, scannerVars, browseVars>>

\* await error_count.write_value(0), then the return; a refused write raises
\* out of the method and the caller gets no output.
RestartWrite ==
    /\ rst.pc = "write"
    /\ LET pv == PyInt(0)
           w  == write_value(nodes, ErrorCount, pv)
       IN  /\ nodes' = w.nodes
           /\ rst' = [rst EXCEPT !.pc = "idle",
                                 !.ret = IF w.ok THEN "PLC restarted successfully"
                                                 ELSE "raised BadTypeMismatch",
                                 !.wrote = WriteRecord(ErrorCount, pv, w.ok)]
           /\ obs' = [obs EXCEPT !.lastWrite = WriteRecord(ErrorCount, pv, w.ok),
                                 !.errCycles = 0]
    /\ UNCHANGED <<plc_emulator, strict_types, upd, scannerVars, browseVars>>

----------------------------------------------------------------------------
(***************************************************************************)
(* OPCUAScanner.browse_nodes and OPCUAScanner.scan_all_nodes               *)
(***************************************************************************)

\* Nodes of the address spaces explored.
MaxNodes == 4

\* The node classes of the library's ua.NodeClass seen below the Objects node.
NodeClasses == <<"Object", "Variable", "Method", "View">>

RootNode == 1

\* The address spaces: trees rooted at the Objects node (node 1), a class for
\* each node (the Objects node is an Object, the classes of the others rotate
\* through NodeClasses), the order get_children lists children in, and the
\* node whose get_children raises, if any.
ClassPattern(n, shift) ==
    [k \in 1 .. n |-> IF k = RootNode THEN "Object"
                      ELSE NodeClasses[((k + shift) % Len(NodeClasses)) + 1]]
SpacesOfSize(n) ==
    { [n |-> n, parent |-> par, class |-> cls, reversed |-> rev, fails |-> f] :
        par \in {q \in [2 .. n -> 1 .. n] : \A k \in 2 .. n : q[k] < k},
        cls \in {ClassPattern(n, shift) : shift \in 0 .. 3},
        rev \in BOOLEAN,
        f \in {{}} \cup {{k} : k \in 1 .. n} }
Spaces == UNION {SpacesOfSize(n) : n \in 1 .. MaxNodes}

RECURSIVE Ascending(_)
Ascending(S) ==
    IF S = {} THEN <<>>
    ELSE LET m == CHOOSE x \in S : \A y \in S : x <= y
         IN  <<m>> \o Ascending(S \ {m})
Reverse(q) == [k \in 1 .. Len(q) |-> q[Len(q) + 1 - k]]

\* node.get_children(): the children of a node, in the server's order.
get_children(sp, node) ==
    LET kids == Ascending({k \in 2 .. sp.n : sp.parent[k] = node})
    IN  IF sp.reversed THEN Reverse(kids) ELSE kids

\* Python strings are sequences of characters.
StrVariable == <<"V", "a", "r", "i", "a", "b", "l", "e">>
StrObject   == <<"O", "b", "j", "e", "c", "t">>
StrMethod   == <<"M", "e", "t", "h", "o", "d">>

\* str() of the coroutine object that calling Node.read_node_class without
\* await produces (the address varies; it is hexadecimal).
StrCoroutineReadNodeClass ==
    << "<", "c", "o", "r", "o", "u", "t", "i", "n", "e", " ", "o", "b", "j",
       "e", "c", "t", " ", "N", "o", "d", "e", ".", "r", "e", "a", "d", "_",
       "n", "o", "d", "e", "_", "c", "l", "a", "s", "s", " ", "a", "t", " ",
       "0", "x", "7", "f", "3", "a", "5", "c", "1", "d", "2", "e", "4", "0",
       ">" >>

\* Python's `sub in text`.
Contains(sub, text) ==
    \E i \in 0 .. (Len(text) - Len(sub)) : SubSeq(text, i + 1, i + Len(sub)) = sub

\* The level browse_nodes passes to a child, with the increment left out.
ChildLevelSame(level) == level

\* browse_nodes(child, level + 1)
ChildLevel(level) == level + 1

\* The node_info dict of browse_nodes.  read_browse_name, read_display_name and
\* read_node_class are called without await, so each field holds str() of a
\* coroutine object; a coroutine object is never equal to
\* ua.NodeClass.Variable, so "value" and "data_type" are never added.
NodeInfo(sp, node, level) ==
    [node_id      |-> [Identifier |-> node],
     browse_name  |-> "<coroutine object Node.read_browse_name>",
     display_name |-> "<coroutine object Node.read_display_name>",
     node_class   |-> StrCoroutineReadNodeClass,
     level        |-> level]

\* browse_nodes: the node's record, then the records of each child's
\* browse_nodes in get_children order; an exception of get_children is logged
\* and the records collected so far are returned.
RECURSIVE browse_nodes(_, _, _), BrowseChildren(_, _, _)
browse_nodes(sp, node, level) ==
    IF node \in sp.fails
      THEN <<NodeInfo(sp, node, level)>>
      ELSE <<NodeInfo(sp, node, level)>> \o BrowseChildren(sp, get_children(sp, node), level)
BrowseChildren(sp, kids, level) ==
    IF kids = <<>> THEN <<>>
    ELSE browse_nodes(sp, Head(kids), ChildLevel(level)) \o BrowseChildren(sp, Tail(kids), level)

\* The list scan_all_nodes appends a record to.
Bucket(node_info) ==
    IF Contains(StrVariable, node_info.node_class) THEN "variables"
    ELSE IF Contains(StrObject, node_info.node_class) THEN "objects"
    ELSE IF Contains(StrMethod, node_info.node_class) THEN "methods"
    ELSE "folders"

IsIn(b, node_info) == Bucket(node_info) = b

\* scan_all_nodes: browse from the Objects node, then sort the records into
\* the four lists, keeping their order.
scan_all_nodes(sp) ==
    LET all_nodes == browse_nodes(sp, RootNode, 0)
        In(b) == SelectSeq(all_nodes, LAMBDA r : IsIn(b, r))
    IN  [all_nodes |-> all_nodes,
         organized |-> [folders |-> In("folders"), variables |-> In("variables"),
                        objects |-> In("objects"), methods |-> In("methods")]]

NoOrganized == [folders |-> <<>>, variables |-> <<>>, objects |-> <<>>, methods |-> <<>>]
NoScan == [op |-> "none", start |-> RootNode, nodes_info |-> <<>>, organized |-> NoOrganized]

\* A call of browse_nodes(node) on a connected scanner.
BrowseNodes(start) ==
    /\ scan' = [op |-> "browse_nodes", start |-> start,
                nodes_info |-> browse_nodes(space, start, 0), organized |-> NoOrganized]
    /\ UNCHANGED <<space, scannerVars, serverVars>>

\* A call of scan_all_nodes on a connected scanner.
ScanAllNodes ==
    /\ LET res == scan_all_nodes(space)
       IN  scan' = [op |-> "scan_all_nodes", start |-> RootNode,
                    nodes_info |-> res.all_nodes, organized |-> res.organized]
    /\ UNCHANGED <<space, scannerVars, serverVars>>


----------------------------------------------------------------------------
(***************************************************************************)
(* Specifications                                                          *)
(***************************************************************************)

ScannerInit ==
    /\ client = "None"
    /\ link = "closed"
    /\ last = NoOp
    /\ mon = MonOff

ServerInit ==
    /\ plc_emulator = FreshEmulator
    /\ nodes = [key \in NodeKeys |-> [vt |-> DeclaredType(key), val |-> InitialValue(key)]]
    /\ upd = UpdIdle
    /\ rst = RstIdle
    /\ obs = ObsInit

\* The address space init_server builds, as far as the scanner's other methods
\* are concerned: the Objects node, PLC_System, RestartPLC and one variable.
BrowseIdle ==
    /\ space = [n |-> 4, parent |-> [k \in 2 .. 4 |-> IF k = 2 THEN 1 ELSE 2],
                class |-> [k \in 1 .. 4 |-> IF k <= 2 THEN "Object"
                                            ELSE IF k = 3 THEN "Method" ELSE "Variable"],
                reversed |-> FALSE, fails |-> {}]
    /\ scan = NoScan

\* The scanner: a session of connect / disconnect / call_method / monitor_values.
InitScanner ==
    /\ ScannerInit
    /\ ServerInit /\ strict_types = TRUE
    /\ BrowseIdle

NextScanner ==
    \/ \E o \in ConnectOutcomes : Connect(o)
    \/ \E libOk \in BOOLEAN : Disconnect(libOk)
    \/ \E f \in CallFailures \cup {"none"}, r \in CallResults : CallMethod(f, r)
    \/ \E arg \in NodePathArgs : MonitorStart(arg)
    \/ \E o \in ReadOutcomes : MonitorRead(o)
    \/ MonitorWake
    \/ MonitorInterrupt

SpecScanner == InitScanner /\ [][NextScanner]_vars

\* The server: the update loop of run, and RestartPLC calls from clients.
InitServer ==
    /\ ScannerInit
    /\ ServerInit /\ strict_types \in BOOLEAN
    /\ BrowseIdle

NextServer ==
    \/ \E seed \in Seeds : UpdateBegin(seed)
    \/ UpdateSensor
    \/ UpdateLastUpdate
    \/ \E comm_ok \in BOOLEAN : UpdateCommStatus(comm_ok)
    \/ UpdateReadErrors
    \/ UpdateWriteErrors
    \/ \E force_restart \in BOOLEAN : RestartCall(force_restart)
    \/ RestartWrite

SpecServer == InitServer /\ [][NextServer]_vars

\* The run loop alone, after init_server and the start of the server: every
\* await of update_values may raise.  The event loop resumes the coroutine
\* whenever the call it awaits has returned or raised, and asyncio.sleep(1)
\* returns: a step of the loop that stays possible is taken.  The values the
\* emulator draws play no part here, two random streams are followed.
RunSeeds == {8, 40}

NextRun ==
    \/ \E seed \in RunSeeds : UpdateBegin(seed)
    \/ UpdateSensor
    \/ UpdateLastUpdate
    \/ \E comm_ok \in BOOLEAN : UpdateCommStatus(comm_ok)
    \/ UpdateReadErrors
    \/ UpdateWriteErrors
    \/ UpdateRaises

SpecRun == InitServer /\ [][NextRun]_vars /\ WF_vars(NextRun)

\* Browsing: any address space of the bound, browsed from any of its nodes.
InitBrowse ==
    /\ ScannerInit
    /\ ServerInit /\ strict_types = TRUE
    /\ space \in Spaces
    /\ scan = NoScan

NextBrowse ==
    \/ \E start \in 1 .. space.n : BrowseNodes(start)
    \/ ScanAllNodes

SpecBrowse == InitBrowse /\ [][NextBrowse]_vars

----------------------------------------------------------------------------
(***************************************************************************)
(* Properties of the scanner session (SpecScanner)                         *)
(***************************************************************************)

\* C1: disconnect on a scanner without a live connection (never connected,
\* connect failed, or already disconnected) is a no-op: no disconnect call
\* reaches the library client, the scanner's state is unchanged and nothing
\* is raised.
C1_DisconnectIsNoOpWithoutLiveConnection ==
    (last.op = "disconnect" /\ last.before.link = "closed")
        => /\ ~last.libDisconnect
           /\ ~last.raised
           /\ ScannerState = last.before

\* C2: connect returns a boolean and never raises; it returns True exactly when
\* the library connection was established, also when reading the server
\* information failed afterwards.
C2_ConnectReturnsWhetherEstablished ==
    last.op = "connect"
        => /\ last.ret \in BOOLEAN
           /\ ~last.raised
           /\ last.ret = last.established

\* A connect whose library connection succeeded and whose server-info read
\* failed has returned True.
C2_Witness ==
    /\ last.op = "connect"
    /\ last.established
    /\ last.infoFailed
    /\ last.ret = TRUE
    /\ link = "open"

\* C3: a failed call_method gives its caller a typed error telling the kind of
\* failure, and a value no successful call returns.
C3_CallMethodFailureIsTyped ==
    (last.op = "call_method" /\ last.failure # "none")
        => /\ last.ret = last.failure
           /\ last.ret \notin CallResults

\* C4: in a monitoring cycle every path of the list is read, in list order,
\* whatever the outcome of the other reads; a failed read neither skips the
\* rest of the cycle nor ends the loop.
C4_MonitorReadsEveryPath ==
    mon.pc \in {"reading", "sleep"}
        => /\ Len(mon.results) = mon.i - 1
           /\ Len(mon.results) <= Len(mon.paths)
           /\ \A k \in 1 .. Len(mon.results) : mon.results[k].path = mon.paths[k]
           /\ mon.pc = "sleep" => Len(mon.results) = Len(mon.paths)
           /\ mon.pc = "reading" => mon.i <= Len(mon.paths)

\* A cycle is complete in which a read failed and a later read printed a value.
C4_Witness ==
    /\ mon.pc = "sleep"
    /\ \E j, k \in 1 .. Len(mon.results) :
          /\ j < k
          /\ mon.results[j].printed = "error"
          /\ mon.results[k].printed = "value"

----------------------------------------------------------------------------
(***************************************************************************)
(* Properties of the server (SpecServer)                                   *)
(***************************************************************************)

\* C5: a completed RestartPLC call with force_restart = True has replaced the
\* emulator with a fresh one, written 0 to Error_Count and returned "PLC
\* restarted successfully"; with force_restart = False it has returned "PLC
\* restart cancelled" and touched neither the emulator nor any node.
C5_RestartPlcContract ==
    (rst.pc = "idle" /\ rst.calls > 0)
        => IF rst.force
             THEN /\ rst.replaced
                  /\ rst.wrote.key = ErrorCount
                  /\ rst.wrote.sent = PyInt(0)
                  /\ rst.wrote.accepted
                  /\ rst.ret = "PLC restarted successfully"
             ELSE /\ rst.ret = "PLC restart cancelled"
                  /\ ~rst.replaced
                  /\ rst.wrote = NoWrite

\* C6: every write the server issues carries a value of the variant type the
\* node was declared with, so none is refused as a type mismatch.
C6_ServerWritesMatchDeclaredType ==
    obs.lastWrite # NoWrite
        => /\ obs.lastWrite.variant = obs.lastWrite.declared
           /\ obs.lastWrite.accepted

\* C7: whenever neither an update cycle nor a RestartPLC call is under way,
\* Error_Count is the number of cycles with comm_ok = False completed since
\* the last RestartPLC(True) (since startup if there was none).
C7_ErrorCountCountsErrorCycles ==
    (upd.at = "sleep" /\ rst.pc = "idle")
        => nodes[ErrorCount].val.v = obs.errCycles

\* C8: every sensor, motor, limit-switch and setpoint value an execution of
\* update_values writes is the value of the emulator state its update_data
\* call produced.
C8_CycleWritesFromOneEmulatorState ==
    obs.lastWrite.key \in SensorKeys
        => obs.lastWrite.sent = SensorValue(obs.snapshot, obs.lastWrite.key)

----------------------------------------------------------------------------
(***************************************************************************)
(* Properties of browsing (SpecBrowse)                                     *)
(***************************************************************************)

RECURSIVE Depth(_, _)
Depth(sp, node) == IF node = RootNode THEN 0 ELSE 1 + Depth(sp, sp.parent[node])

RECURSIVE IsProperAncestor(_, _, _)
IsProperAncestor(sp, a, node) ==
    /\ node # RootNode
    /\ \/ sp.parent[node] = a
       \/ IsProperAncestor(sp, a, sp.parent[node])

\* The nodes a browse from `start` reaches: those of its subtree with no
\* failing node strictly between them and `start`, `start` included.
Reached(sp, start) ==
    {n \in 1 .. sp.n :
        /\ n = start \/ IsProperAncestor(sp, start, n)
        /\ \A a \in 1 .. sp.n :
              (IsProperAncestor(sp, a, n) /\ (a = start \/ IsProperAncestor(sp, start, a)))
                  => a \notin sp.fails}

\* Position of a child in its parent's get_children list.
ChildIndex(sp, child) ==
    LET kids == get_children(sp, sp.parent[child])
    IN  CHOOSE j \in 1 .. Len(kids) : kids[j] = child

\* The child of `a` on the path down to `n`, for a proper ancestor a of n.
ChildTowards(sp, a, n) ==
    CHOOSE c \in 2 .. sp.n :
        sp.parent[c] = a /\ (c = n \/ IsProperAncestor(sp, c, n))

\* x comes before y in the pre-order of the tree.
PreOrderBefore(sp, x, y) ==
    \/ IsProperAncestor(sp, x, y)
    \/ \E a \in 1 .. sp.n :
          /\ IsProperAncestor(sp, a, x)
          /\ IsProperAncestor(sp, a, y)
          /\ ChildTowards(sp, a, x) # ChildTowards(sp, a, y)
          /\ ChildIndex(sp, ChildTowards(sp, a, x)) < ChildIndex(sp, ChildTowards(sp, a, y))

\* C9: browse_nodes returns one record for every node reachable from the start
\* node, each once, in pre-order, with level = depth below the start node;
\* when get_children of a node raises, the records collected so far (that
\* node's included) are returned and the browse goes on with the rest.
C9_BrowseIsPreOrder ==
    scan.op = "browse_nodes"
        => LET r  == scan.nodes_info
               id(k) == r[k].node_id.Identifier
           IN  /\ {id(k) : k \in 1 .. Len(r)} = Reached(space, scan.start)
               /\ Len(r) = Cardinality(Reached(space, scan.start))
               /\ \A k \in 1 .. Len(r) :
                     r[k].level = Depth(space, id(k)) - Depth(space, scan.start)
               /\ \A j, k \in 1 .. Len(r) :
                     j < k => PreOrderBefore(space, id(j), id(k))

\* A browse from the Objects node of a tree with a branch: a grandchild is
\* listed, at level 2, before the second child of the root, and a node whose
\* get_children raises is listed too.
C9_Witness ==
    /\ scan.op = "browse_nodes"
    /\ scan.start = RootNode
    /\ space.fails # {}
    /\ \E j, k \in 1 .. Len(scan.nodes_info) :
          /\ j < k
          /\ scan.nodes_info[j].level = 2
          /\ scan.nodes_info[k].level = 1
    /\ \E k \in 1 .. Len(scan.nodes_info) :
          scan.nodes_info[k].node_id.Identifier \in space.fails

\* The list scan_all_nodes is to put a node of a given class into.
ListOfClass(class) ==
    CASE class = "Variable" -> "variables"
      [] class = "Object"   -> "objects"
      [] class = "Method"   -> "methods"
      [] OTHER              -> "folders"

\* C10: scan_all_nodes puts every browsed node into the list of its class on
\* the server, keeping browse order inside each list.
C10_ScanSortsByNodeClass ==
    scan.op = "scan_all_nodes"
        => \A b \in {"folders", "variables", "objects", "methods"} :
              scan.organized[b] =
                  SelectSeq(scan.nodes_info,
                            LAMBDA r : ListOfClass(space.class[r.node_id.Identifier]) = b)

----------------------------------------------------------------------------
(***************************************************************************)
(* Properties of the run loop (SpecRun)                                    *)
(***************************************************************************)

\* C11: a failure inside an update cycle is contained to that cycle: no
\* exception of update_values reaches run (the loop is never left), a cycle
\* that ended in a logged exception is followed by the start of the next
\* cycle, and the cycles go on (here: all MaxCycles of them take place).
C11_UpdateCyclesKeepOccurring ==
    /\ [](upd.at # "stopped")
    /\ (obs.lastCycle = "exception logged" /\ upd.cycles < MaxCycles)
           ~> (obs.lastCycle = "running")
    /\ <>(upd.cycles = MaxCycles)

\* A cycle is under way after an earlier cycle ended in a logged exception.
C11_Witness ==
    /\ obs.failedCycles >= 1
    /\ upd.cycles >= 1
    /\ upd.at = "sensors"
    /\ obs.lastCycle = "running"

====
